---- MODULE Spec2Model ----
(***************************************************************************)
(* Version model and staleness decision of aver (pkg/actions/actions.go).  *)
(*                                                                         *)
(* A Go string is modelled as a sequence of one-character strings, so that *)
(* parsing is a computation over characters: "v1.0" is <<"v","1",".","0">>.*)
(* The empty Go string, which findLatestVersion returns for "no newer      *)
(* version", is the empty sequence.                                         *)
(***************************************************************************)
EXTENDS Integers, Sequences, FiniteSets, TLC

VARIABLES
    pc,              \* position of the harness that drives the function under study
    version,         \* argument of parseSemver
    sv,              \* value returned by parseSemver
    va, vb, vc,      \* three version strings handed to semver.compare
    cmpAB, cmpBC, cmpAC, cmpBA, cmpAA,   \* results of semver.compare
    tags,            \* []GitHubTag, each tag reduced to its Name
    currentVersion,  \* currentVersion argument of findLatestVersion
    ignoreMinor,     \* ignoreMinor argument of findLatestVersion
    latestVersion,   \* value returned by findLatestVersion
    shaResult,       \* value returned by isSHA
    actions,         \* []ActionReference handed to CheckActionVersions
    opts,            \* CheckOptions handed to CheckActionVersions
    idx,             \* number of references the loop has gone past
    result,          \* CheckResult: Outdated, SHAPinned, Warnings
    cache,           \* tagCache.tags: repo -> tag names
    skippedRepos,    \* the repos known to be inaccessible
    returned,        \* what CheckActionVersions returned: (bool, error)
    calls,           \* the remote calls issued so far, with their answers
    args,            \* os.Args[1:], as the flags hasFlag finds in it
    tty,             \* isTerminal(os.Stderr)
    exitCode,        \* the status handed to os.Exit
    stdout,          \* what was written to os.Stdout, one entry per piece
    stderr,          \* what was written to os.Stderr, one entry per piece
    spin,            \* the *spinner of main: its channels and its frame count
    gpc,             \* position of the goroutine of spinner.start
    updates          \* number of calls of spinner.update that have returned

\* the variables of the version model and of the staleness decision
pureVars == <<version, sv, va, vb, vc, cmpAB, cmpBC, cmpAC, cmpBA, cmpAA,
              tags, currentVersion, ignoreMinor, latestVersion, shaResult>>

\* the variables of one run of CheckActionVersions
checkVars == <<actions, opts, idx, result, cache, skippedRepos, returned, calls>>

\* the variables of the process: main and the spinner
mainVars == <<args, tty, exitCode, stdout, stderr, spin, gpc, updates>>

vars == <<pc, pureVars, checkVars, mainVars>>

----------------------------------------------------------------------------
(* Bounds *)

\* longest string handed to parseSemver
MaxLen == 7
\* largest component of the versions handed to semver.compare
MaxComp == 1
\* longest tag list handed to findLatestVersion
MaxTags == 3
\* longest string handed to isSHA
MaxShaLen == 41
\* longest reference list handed to CheckActionVersions
MaxRefs == 3
\* greatest ahead_by the compare API answers
MaxAhead == 2
\* longest reference list FindActionReferences hands to main
MaxMainRefs == 2
\* most frames the spinner draws in one run
MaxFrames == 2
\* most calls of spinner.update in one run
MaxUpdates == 2

----------------------------------------------------------------------------
(* Characters and strings *)

Digits == {"0", "1", "2", "3", "4", "5", "6", "7", "8", "9"}

\* the characters the enumerated inputs of parseSemver are made of
Alphabet == {"v", ".", "0", "1", "a"}

IsDigit(c) == c \in Digits

\* value of one decimal digit
DigitVal(c) ==
    CASE c = "0" -> 0 [] c = "1" -> 1 [] c = "2" -> 2 [] c = "3" -> 3
      [] c = "4" -> 4 [] c = "5" -> 5 [] c = "6" -> 6 [] c = "7" -> 7
      [] c = "8" -> 8 [] c = "9" -> 9

\* all strings over Alphabet of length at most n
StringsUpTo(n) == UNION {[1..k -> Alphabet] : k \in 0..n}

\* strconv.Atoi on a non-empty run of decimal digits
RECURSIVE Atoi(_)
Atoi(ds) ==
    IF ds = <<>> THEN 0
    ELSE 10 * Atoi(SubSeq(ds, 1, Len(ds) - 1)) + DigitVal(ds[Len(ds)])

\* strings.HasPrefix(s, "v")
HasPrefixV(s) == Len(s) >= 1 /\ s[1] = "v"

\* strings.Contains(s, ".")
ContainsDot(s) == \E i \in 1..Len(s) : s[i] = "."

----------------------------------------------------------------------------
(* parseSemver: ^v?(\d+)(?:\.(\d+))?(?:\.(\d+))?$ *)

\* the nil *semver
Nil == [nil |-> TRUE]

\* end (exclusive) of the longest run of digits of s that starts at position i:
\* what a greedy \d+ consumes
RECURSIVE DigitRunEnd(_, _)
DigitRunEnd(s, i) ==
    IF i <= Len(s) /\ IsDigit(s[i]) THEN DigitRunEnd(s, i + 1) ELSE i

\* an optional group (?:\.(\d+))? tried at position i: the position after it
\* when a dot and at least one digit are there, i itself when the group is
\* skipped
OptGroupEnd(s, i) ==
    IF i <= Len(s) /\ s[i] = "." /\ DigitRunEnd(s, i + 1) > i + 1
    THEN DigitRunEnd(s, i + 1)
    ELSE i

\* FindStringSubmatch for the pattern written without its final $: a match
\* of a prefix of s is accepted
FindStringSubmatch_NoEndAnchor(s) ==
    LET p0 == IF HasPrefixV(s) THEN 2 ELSE 1
        p1 == DigitRunEnd(s, p0)
        p2 == OptGroupEnd(s, p1)
        p3 == OptGroupEnd(s, p2)
    IN  IF p1 > p0
        THEN << SubSeq(s, p0, p1 - 1),
                IF p2 > p1 THEN SubSeq(s, p1 + 1, p2 - 1) ELSE <<>>,
                IF p3 > p2 THEN SubSeq(s, p2 + 1, p3 - 1) ELSE <<>> >>
        ELSE <<>>

\* re.FindStringSubmatch: <<matches[1], matches[2], matches[3]>>, or <<>> for
\* no match.  An optional group that did not take part is the empty string.
FindStringSubmatch(s) ==
    LET p0 == IF HasPrefixV(s) THEN 2 ELSE 1
        p1 == DigitRunEnd(s, p0)
        p2 == OptGroupEnd(s, p1)
        p3 == OptGroupEnd(s, p2)
    IN  IF p1 > p0 /\ p3 = Len(s) + 1
        THEN << SubSeq(s, p0, p1 - 1),
                IF p2 > p1 THEN SubSeq(s, p1 + 1, p2 - 1) ELSE <<>>,
                IF p3 > p2 THEN SubSeq(s, p2 + 1, p3 - 1) ELSE <<>> >>
        ELSE <<>>

\* parseSemver returning a zero value instead of nil when nothing matches
parseSemver_ZeroValue(s) ==
    LET matches == FindStringSubmatch(s)
    IN  IF matches = <<>> THEN [Major |-> 0, Minor |-> 0, Patch |-> 0, Raw |-> s]
        ELSE [ Major |-> Atoi(matches[1]),
               Minor |-> IF matches[2] # <<>> THEN Atoi(matches[2]) ELSE 0,
               Patch |-> IF matches[3] # <<>> THEN Atoi(matches[3]) ELSE 0,
               Raw   |-> s ]

\* parseSemver that never reads the third group
parseSemver_PatchDropped(s) ==
    LET matches == FindStringSubmatch(s)
    IN  IF matches = <<>> THEN Nil
        ELSE [ Major |-> Atoi(matches[1]),
               Minor |-> IF matches[2] # <<>> THEN Atoi(matches[2]) ELSE 0,
               Patch |-> 0,
               Raw   |-> s ]

parseSemver(s) ==
    LET matches == FindStringSubmatch(s)
    IN  IF matches = <<>> THEN Nil
        ELSE [ Major |-> Atoi(matches[1]),
               Minor |-> IF matches[2] # <<>> THEN Atoi(matches[2]) ELSE 0,
               Patch |-> IF matches[3] # <<>> THEN Atoi(matches[3]) ELSE 0,
               Raw   |-> s ]

----------------------------------------------------------------------------
(* semver.compare *)

\* compare without its patch step
compare_IgnoresPatch(s, other) ==
    IF s.Major # other.Major THEN (IF s.Major < other.Major THEN -1 ELSE 1)
    ELSE IF s.Minor # other.Minor THEN (IF s.Minor < other.Minor THEN -1 ELSE 1)
    ELSE 0

\* compare with the two results of its minor step exchanged
compare_MinorSwapped(s, other) ==
    IF s.Major # other.Major THEN (IF s.Major < other.Major THEN -1 ELSE 1)
    ELSE IF s.Minor # other.Minor THEN (IF s.Minor < other.Minor THEN 1 ELSE -1)
    ELSE IF s.Patch # other.Patch THEN (IF s.Patch < other.Patch THEN -1 ELSE 1)
    ELSE 0

\* compare whose patch step answers -1 whenever the patches differ
compare_PatchAlwaysLess(s, other) ==
    IF s.Major # other.Major THEN (IF s.Major < other.Major THEN -1 ELSE 1)
    ELSE IF s.Minor # other.Minor THEN (IF s.Minor < other.Minor THEN -1 ELSE 1)
    ELSE IF s.Patch # other.Patch THEN -1
    ELSE 0

\* -1 if s < other, 0 if equal, 1 if s > other
compare(s, other) ==
    IF s.Major # other.Major THEN (IF s.Major < other.Major THEN -1 ELSE 1)
    ELSE IF s.Minor # other.Minor THEN (IF s.Minor < other.Minor THEN -1 ELSE 1)
    ELSE IF s.Patch # other.Patch THEN (IF s.Patch < other.Patch THEN -1 ELSE 1)
    ELSE 0

----------------------------------------------------------------------------
(* findLatestVersion *)

\* the loop that parses every tag name and keeps the parseable ones, in order
RECURSIVE Candidates(_)
Candidates(ts) ==
    IF ts = <<>> THEN <<>>
    ELSE LET parsed == parseSemver(Head(ts))
         IN  IF parsed = Nil THEN Candidates(Tail(ts))
             ELSE <<parsed>> \o Candidates(Tail(ts))

\* the less function of an ascending sort
SortLess_Ascending(x, y) == compare(x, y) < 0

\* candidates[i].compare(candidates[j]) > 0, the less function of the sort
SortLess(x, y) == compare(x, y) > 0

\* one pass of the insertion sort sort.Slice runs on a short slice: c is moved
\* towards the front while it is less than its left neighbour
RECURSIVE InsertSorted(_, _)
InsertSorted(sorted, c) ==
    IF sorted = <<>> THEN <<c>>
    ELSE LET last == sorted[Len(sorted)]
         IN  IF SortLess(c, last)
             THEN InsertSorted(SubSeq(sorted, 1, Len(sorted) - 1), c) \o <<last>>
             ELSE sorted \o <<c>>

\* sort.Slice(candidates, ...): descending by compare
RECURSIVE SortCandidates(_)
SortCandidates(cs) ==
    IF cs = <<>> THEN <<>>
    ELSE InsertSorted(SortCandidates(SubSeq(cs, 1, Len(cs) - 1)), cs[Len(cs)])

\* the major-only condition without the test for a dot in the raw name
IsPureMajorTag_AllowsDots(c) ==
    c.Minor = 0 /\ c.Patch = 0 /\ HasPrefixV(c.Raw)

\* the condition under which the major-only loop considers a candidate
IsPureMajorTag(c) ==
    c.Minor = 0 /\ c.Patch = 0 /\ HasPrefixV(c.Raw) /\ ~ContainsDot(c.Raw)

\* the major-only loop: latestMajor after the candidates cs have been visited,
\* starting from acc (Nil for the nil pointer)
RECURSIVE LatestMajor(_, _)
LatestMajor(cs, acc) ==
    IF cs = <<>> THEN acc
    ELSE LET c == Head(cs)
         IN  IF IsPureMajorTag(c) /\ (acc = Nil \/ c.Major > acc.Major)
             THEN LatestMajor(Tail(cs), c)
             ELSE LatestMajor(Tail(cs), acc)

None == <<>>

findLatestVersion(ts, current, major_only) ==
    LET currentSV == parseSemver(current)
    IN  IF currentSV = Nil THEN None
        ELSE LET candidates == SortCandidates(Candidates(ts))
             IN  IF Len(candidates) = 0 THEN None
                 ELSE IF major_only
                      THEN LET latestMajor == LatestMajor(candidates, Nil)
                           IN  IF latestMajor # Nil /\ latestMajor.Major > currentSV.Major
                               THEN latestMajor.Raw
                               ELSE None
                      ELSE LET latest == candidates[1]
                           IN  IF compare(latest, currentSV) > 0
                               THEN latest.Raw
                               ELSE None

----------------------------------------------------------------------------
(* isSHA *)

UpperCase == <<"A", "B", "C", "D", "E", "F", "G", "H", "I", "J", "K", "L", "M",
               "N", "O", "P", "Q", "R", "S", "T", "U", "V", "W", "X", "Y", "Z">>

LowerCase == <<"a", "b", "c", "d", "e", "f", "g", "h", "i", "j", "k", "l", "m",
               "n", "o", "p", "q", "r", "s", "t", "u", "v", "w", "x", "y", "z">>

\* the code point of a character, by which Go compares runes
CodePoint(c) ==
    CASE c \in Digits -> 48 + DigitVal(c)
      [] \E i \in 1..26 : UpperCase[i] = c ->
             64 + (CHOOSE i \in 1..26 : UpperCase[i] = c)
      [] \E i \in 1..26 : LowerCase[i] = c ->
             96 + (CHOOSE i \in 1..26 : LowerCase[i] = c)
      [] c = "!" -> 33
      [] c = "." -> 46
      [] c = "/" -> 47
      [] c = ":" -> 58
      [] c = "@" -> 64

\* c >= lo && c <= hi on runes
RuneBetween(c, lo, hi) ==
    CodePoint(c) >= CodePoint(lo) /\ CodePoint(c) <= CodePoint(hi)

\* isSHA taking only the full length of 40 characters for a hash
isSHA_FullLengthOnly(s) ==
    /\ Len(s) = 40
    /\ \A i \in 1..Len(s) :
          \/ RuneBetween(s[i], "0", "9")
          \/ RuneBetween(s[i], "a", "f")
          \/ RuneBetween(s[i], "A", "F")

\* isSHA refusing a string that parses as a version
isSHA_VersionFirst(s) ==
    /\ parseSemver(s) = Nil
    /\ ~(Len(s) < 7)
    /\ \A i \in 1..Len(s) :
          \/ RuneBetween(s[i], "0", "9")
          \/ RuneBetween(s[i], "a", "f")
          \/ RuneBetween(s[i], "A", "F")

\* isSHA(version)
isSHA(s) ==
    IF Len(s) < 7 THEN FALSE
    ELSE \A i \in 1..Len(s) :
             \/ RuneBetween(s[i], "0", "9")
             \/ RuneBetween(s[i], "a", "f")
             \/ RuneBetween(s[i], "A", "F")

----------------------------------------------------------------------------
(* Errors and the answers of the GitHub API *)

\* the nil error
NoErr == [kind |-> "nil"]

\* &ErrRepoNotAccessible{Repo: repo, Status: status}
ErrRepoNotAccessible(repo, status) ==
    [kind |-> "ErrRepoNotAccessible", Repo |-> repo, Status |-> status]

\* any other error: one returned by the HTTP client or the JSON decoder, or
\* fmt.Errorf("GitHub API returned status %d", ...)
OtherErr(text) == [kind |-> "error", text |-> text]

\* errors.As(err, &notAccessible)
IsNotAccessible(err) == err.kind = "ErrRepoNotAccessible"

\* An answer of the API to one request is [status, decodes, body]: status is
\* the HTTP status code, or "neterr" when client.Do returns an error; decodes
\* tells whether the JSON decoder accepts the body; body is the decoded value.

\* AnswerErr taking a server error for an inaccessible repository too
AnswerErr_ServerErrorInaccessible(repo, a) ==
    IF a.status = "neterr" THEN OtherErr(<<"client">>)
    ELSE IF a.status = "404" \/ a.status = "403" \/ a.status = "500"
         THEN ErrRepoNotAccessible(repo, a.status)
    ELSE IF a.status # "200" THEN OtherErr(<<"GitHub API returned status ", a.status>>)
    ELSE IF ~a.decodes THEN OtherErr(<<"decode">>)
    ELSE NoErr

\* the error the two functions that tell an inaccessible repository return
\* for the answer a, NoErr when the body was decoded
AnswerErr(repo, a) ==
    IF a.status = "neterr" THEN OtherErr(<<"client">>)
    ELSE IF a.status = "404" \/ a.status = "403"
         THEN ErrRepoNotAccessible(repo, a.status)
    ELSE IF a.status # "200" THEN OtherErr(<<"GitHub API returned status ", a.status>>)
    ELSE IF ~a.decodes THEN OtherErr(<<"decode">>)
    ELSE NoErr

\* the error of the two functions that only test for status 200
AnswerErrPlain(a) ==
    IF a.status = "neterr" THEN OtherErr(<<"client">>)
    ELSE IF a.status # "200" THEN OtherErr(<<"GitHub API returned status ", a.status>>)
    ELSE IF ~a.decodes THEN OtherErr(<<"decode">>)
    ELSE NoErr

\* fetchTags(repo), the API answering a: (tags, err)
fetchTags(repo, a) ==
    LET err == AnswerErr(repo, a)
    IN  [val |-> IF err = NoErr THEN a.body ELSE <<>>, err |-> err]

\* getDefaultBranch(repo), the API answering a: (branch, err)
getDefaultBranch(repo, a) ==
    LET err == AnswerErr(repo, a)
    IN  [val |-> IF err = NoErr THEN a.body ELSE <<>>, err |-> err]

\* getBranchHead(repo, branch), the API answering a: (sha, err)
getBranchHead(repo, branch, a) ==
    LET err == AnswerErrPlain(a)
    IN  [val |-> IF err = NoErr THEN a.body ELSE <<>>, err |-> err]

\* compareCommits with a JSON tag that matches no field: AheadBy stays zero
compareCommits_AheadByNotDecoded(repo, baseSHA, head, a) ==
    LET err == AnswerErrPlain(a)
    IN  [val |-> 0, err |-> err]

\* compareCommits(repo, baseSHA, head), the API answering a: (aheadBy, err)
compareCommits(repo, baseSHA, head, a) ==
    LET err == AnswerErrPlain(a)
    IN  [val |-> IF err = NoErr THEN a.body ELSE 0, err |-> err]

\* the record of one request: the operation, the repository, and the answer
\* of the API
Call(op, repo, a) ==
    [op |-> op, repo |-> repo, status |-> a.status, decodes |-> a.decodes,
     body |-> a.body]

\* marking a repository in a map made anew
markSkipped_Replaces(skipped, repo) == {repo}

\* skippedRepos[repo] = true
markSkipped(skipped, repo) == skipped \cup {repo}

\* append adding the element twice
append_Twice(s, e) == Append(Append(s, e), e)

\* append putting the element in front
append_InFront(s, e) == <<e>> \o s

\* append(s, e)
append(s, e) == Append(s, e)

----------------------------------------------------------------------------
(* repoFromAction, tagCache.getTags, checkSHAStatus, versionsEqual *)

\* strings.Split(s, "/")
RECURSIVE SplitSlash(_)
SplitSlash(s) ==
    IF \A i \in 1..Len(s) : s[i] # "/" THEN <<s>>
    ELSE LET d == CHOOSE i \in 1..Len(s) :
                      s[i] = "/" /\ \A j \in 1..(i - 1) : s[j] # "/"
         IN  <<SubSeq(s, 1, d - 1)>> \o SplitSlash(SubSeq(s, d + 1, Len(s)))

\* repoFromAction keeping the subpath
repoFromAction_WholeName(name) == name

\* repoFromAction(name): "actions/cache/restore" -> "actions/cache"
repoFromAction(name) ==
    LET parts == SplitSlash(name)
    IN  IF Len(parts) >= 2 THEN parts[1] \o <<"/">> \o parts[2] ELSE name

\* HasPrefix testing for equality
HasPrefix_WholeString(s, prefix) == s = prefix

\* strings.HasPrefix(s, prefix)
HasPrefix(s, prefix) ==
    Len(s) >= Len(prefix) /\ SubSeq(s, 1, Len(prefix)) = prefix

\* getTags storing only a list that has tags
getTags_EmptyNotCached(tc, repo, a) ==
    IF repo \in DOMAIN tc
    THEN [val |-> tc[repo], err |-> NoErr, cache |-> tc, calls |-> <<>>]
    ELSE LET r == fetchTags(repo, a)
         IN  IF r.err # NoErr
             THEN [val |-> <<>>, err |-> r.err, cache |-> tc,
                   calls |-> <<Call("fetchTags", repo, a)>>]
             ELSE [val |-> r.val, err |-> NoErr,
                   cache |-> IF r.val = <<>> THEN tc ELSE tc @@ (repo :> r.val),
                   calls |-> <<Call("fetchTags", repo, a)>>]

\* tc.getTags(repo), the API answering a if it is asked: (tags, err), with
\* the cache afterwards and the requests issued
getTags(tc, repo, a) ==
    IF repo \in DOMAIN tc
    THEN [val |-> tc[repo], err |-> NoErr, cache |-> tc, calls |-> <<>>]
    ELSE LET r == fetchTags(repo, a)
         IN  IF r.err # NoErr
             THEN [val |-> <<>>, err |-> r.err, cache |-> tc,
                   calls |-> <<Call("fetchTags", repo, a)>>]
             ELSE [val |-> r.val, err |-> NoErr, cache |-> tc @@ (repo :> r.val),
                   calls |-> <<Call("fetchTags", repo, a)>>]

\* checkSHAStatus asking for the repository twice
checkSHAStatus_AsksRepoTwice(repo, sha, a1, a2, a3) ==
    LET b  == getDefaultBranch(repo, a1)
        c1 == <<Call("getDefaultBranch", repo, a1), Call("getDefaultBranch", repo, a1)>>
    IN  IF b.err # NoErr THEN [val |-> Nil, err |-> b.err, calls |-> c1]
        ELSE
        LET h  == getBranchHead(repo, b.val, a2)
            c2 == c1 \o <<Call("getBranchHead", repo, a2)>>
        IN  IF h.err # NoErr THEN [val |-> Nil, err |-> h.err, calls |-> c2]
            ELSE IF HasPrefix(h.val, sha) \/ HasPrefix(sha, h.val)
            THEN [val |-> [LatestSHA |-> h.val, CommitsBehind |-> 0],
                  err |-> NoErr, calls |-> c2]
            ELSE
            LET k  == compareCommits(repo, sha, b.val, a3)
                c3 == c2 \o <<Call("compareCommits", repo, a3)>>
            IN  IF k.err # NoErr THEN [val |-> Nil, err |-> k.err, calls |-> c3]
                ELSE [val |-> [LatestSHA |-> h.val, CommitsBehind |-> k.val],
                      err |-> NoErr, calls |-> c3]

\* checkSHAStatus(repo, sha), the API answering a1, a2 and a3 to the requests
\* it is sent: (*shaStatus, err), with the requests issued
checkSHAStatus(repo, sha, a1, a2, a3) ==
    LET b  == getDefaultBranch(repo, a1)
        c1 == <<Call("getDefaultBranch", repo, a1)>>
    IN  IF b.err # NoErr THEN [val |-> Nil, err |-> b.err, calls |-> c1]
        ELSE
        LET h  == getBranchHead(repo, b.val, a2)
            c2 == c1 \o <<Call("getBranchHead", repo, a2)>>
        IN  IF h.err # NoErr THEN [val |-> Nil, err |-> h.err, calls |-> c2]
            ELSE IF HasPrefix(h.val, sha) \/ HasPrefix(sha, h.val)
            THEN [val |-> [LatestSHA |-> h.val, CommitsBehind |-> 0],
                  err |-> NoErr, calls |-> c2]
            ELSE
            LET k  == compareCommits(repo, sha, b.val, a3)
                c3 == c2 \o <<Call("compareCommits", repo, a3)>>
            IN  IF k.err # NoErr THEN [val |-> Nil, err |-> k.err, calls |-> c3]
                ELSE [val |-> [LatestSHA |-> h.val, CommitsBehind |-> k.val],
                      err |-> NoErr, calls |-> c3]

\* versionsEqual comparing the major versions only
versionsEqual_MajorOnly(v1, v2) ==
    LET sv1 == parseSemver(v1)
        sv2 == parseSemver(v2)
    IN  IF sv1 = Nil \/ sv2 = Nil THEN v1 = v2
        ELSE sv1.Major = sv2.Major

\* versionsEqual(v1, v2)
versionsEqual(v1, v2) ==
    LET sv1 == parseSemver(v1)
        sv2 == parseSemver(v2)
    IN  IF sv1 = Nil \/ sv2 = Nil THEN v1 = v2
        ELSE compare(sv1, sv2) = 0

----------------------------------------------------------------------------
(* Inputs *)

\* value of a variable that has not been assigned yet
Unset == [unset |-> TRUE]

\* no run of CheckActionVersions is in progress
IdleCheck ==
    /\ actions = <<>>
    /\ opts = [IgnoreSHA |-> FALSE, IgnoreMinor |-> FALSE]
    /\ idx = 0
    /\ result = [Outdated |-> <<>>, SHAPinned |-> <<>>, Warnings |-> <<>>]
    /\ cache = <<>>
    /\ skippedRepos = {}
    /\ returned = Unset
    /\ calls = <<>>

\* no process is under study
IdleMain ==
    /\ args = [help |-> FALSE, version |-> FALSE, json |-> FALSE, quiet |-> FALSE,
               ignoreSHA |-> FALSE, ignoreMinor |-> FALSE]
    /\ tty = FALSE
    /\ exitCode = Unset
    /\ stdout = <<>>
    /\ stderr = <<>>
    /\ spin = Nil
    /\ gpc = "none"
    /\ updates = 0

\* the decimal digit of n, 0 <= n <= 9
DigitChar(n) == CHOOSE c \in Digits : DigitVal(c) = n

\* strconv.Itoa for n >= 0
RECURSIVE Itoa(_)
Itoa(n) == IF n < 10 THEN <<DigitChar(n)>> ELSE Itoa(n \div 10) \o <<DigitChar(n % 10)>>

\* the version strings vM, vM.N and vM.N.P with components up to MaxComp
VersionPool ==
    LET C == 0..MaxComp
    IN  {<<"v">> \o Itoa(m) : m \in C}
        \cup {<<"v">> \o Itoa(m) \o <<".">> \o Itoa(n) : m \in C, n \in C}
        \cup {<<"v">> \o Itoa(m) \o <<".">> \o Itoa(n) \o <<".">> \o Itoa(q) :
                 m \in C, n \in C, q \in C}

\* tag names a repository may publish: bare majors, full versions, a
\* major.minor tag, a bare number without the v, and a name that is no version
TagPool ==
    { <<"v","1">>, <<"v","2">>, <<"3">>, <<"v","1",".","1">>,
      <<"v","1",".","0",".","0">>, <<"v","1",".","0",".","1">>,
      <<"v","1",".","1",".","0">>, <<"v","2",".","0",".","0">>,
      <<"v","2",".","1",".","1">>, <<"a">> }

\* version specifiers a workflow may pin: major only, major.minor, full
\* versions, and two strings that are no version
CurrentPool ==
    { <<"v","1">>, <<"v","2">>, <<"v","1",".","0">>, <<"v","1",".","1">>,
      <<"v","2",".","1">>, <<"v","1",".","0",".","0">>,
      <<"v","1",".","0",".","1">>, <<"v","2",".","1",".","1">>,
      <<"a">>, <<>> }

\* all tag lists of at most n names
TagListsUpTo(n) == UNION {[1..k -> TagPool] : k \in 0..n}

----------------------------------------------------------------------------
(* parseSemver applied to one string *)

InitParse ==
    /\ pc = "parse_call"
    /\ version \in StringsUpTo(MaxLen)
    /\ sv = Unset
    /\ va = <<>> /\ vb = <<>> /\ vc = <<>>
    /\ cmpAB = 0 /\ cmpBC = 0 /\ cmpAC = 0 /\ cmpBA = 0 /\ cmpAA = 0
    /\ tags = <<>> /\ currentVersion = <<>> /\ ignoreMinor = FALSE
    /\ latestVersion = None
    /\ shaResult = FALSE
    /\ IdleCheck
    /\ IdleMain

ParseSemver ==
    /\ pc = "parse_call"
    /\ sv' = parseSemver(version)
    /\ pc' = "parse_done"
    /\ UNCHANGED <<version, va, vb, vc, cmpAB, cmpBC, cmpAC, cmpBA, cmpAA,
                   tags, currentVersion, ignoreMinor, latestVersion, shaResult>>
    /\ UNCHANGED <<checkVars, mainVars>>

NextParse == ParseSemver

SpecParse == InitParse /\ [][NextParse]_vars

----------------------------------------------------------------------------
(* semver.compare applied to the pairs of three parsed versions *)

InitCompare ==
    /\ pc = "compare_call"
    /\ va \in VersionPool /\ vb \in VersionPool /\ vc \in VersionPool
    /\ cmpAB = 0 /\ cmpBC = 0 /\ cmpAC = 0 /\ cmpBA = 0 /\ cmpAA = 0
    /\ version = <<>> /\ sv = Unset
    /\ tags = <<>> /\ currentVersion = <<>> /\ ignoreMinor = FALSE
    /\ latestVersion = None
    /\ shaResult = FALSE
    /\ IdleCheck
    /\ IdleMain

Compare ==
    /\ pc = "compare_call"
    /\ LET a == parseSemver(va)
           b == parseSemver(vb)
           c == parseSemver(vc)
       IN  /\ cmpAB' = compare(a, b)
           /\ cmpBC' = compare(b, c)
           /\ cmpAC' = compare(a, c)
           /\ cmpBA' = compare(b, a)
           /\ cmpAA' = compare(a, a)
    /\ pc' = "compare_done"
    /\ UNCHANGED <<version, sv, va, vb, vc,
                   tags, currentVersion, ignoreMinor, latestVersion, shaResult>>
    /\ UNCHANGED <<checkVars, mainVars>>

NextCompare == Compare

SpecCompare == InitCompare /\ [][NextCompare]_vars

----------------------------------------------------------------------------
(* findLatestVersion applied to one tag list and one current specifier *)

InitFind ==
    /\ pc = "find_call"
    /\ tags \in TagListsUpTo(MaxTags)
    /\ currentVersion \in CurrentPool
    /\ ignoreMinor \in BOOLEAN
    /\ latestVersion = None
    /\ version = <<>> /\ sv = Unset
    /\ va = <<>> /\ vb = <<>> /\ vc = <<>>
    /\ cmpAB = 0 /\ cmpBC = 0 /\ cmpAC = 0 /\ cmpBA = 0 /\ cmpAA = 0
    /\ shaResult = FALSE
    /\ IdleCheck
    /\ IdleMain

FindLatestVersion ==
    /\ pc = "find_call"
    /\ latestVersion' = findLatestVersion(tags, currentVersion, ignoreMinor)
    /\ pc' = "find_done"
    /\ UNCHANGED <<version, sv, va, vb, vc, cmpAB, cmpBC, cmpAC, cmpBA, cmpAA,
                   tags, currentVersion, ignoreMinor, shaResult>>
    /\ UNCHANGED <<checkVars, mainVars>>

NextFind == FindLatestVersion

SpecFind == InitFind /\ [][NextFind]_vars

----------------------------------------------------------------------------
(* isSHA applied to one string *)

\* the characters the inputs of isSHA are filled with
ShaFill == {"a", "F", "0"}

\* the characters put at one place of an input of isSHA: the ends of the
\* three accepted ranges, their outer neighbours, and v and the dot
ShaProbe == {"/", "0", "9", ":", "@", "A", "F", "G", "a", "f", "g", "v", "."}

\* the strings of n times the character h, and those with one place set to c
ShaInputs ==
    {[i \in 1..n |-> h] : n \in 0..MaxShaLen, h \in ShaFill}
    \cup UNION {{[i \in 1..n |-> IF i = k THEN c ELSE h] : k \in 1..n} :
                   n \in 1..MaxShaLen, h \in ShaFill, c \in ShaProbe}

InitSHA ==
    /\ pc = "sha_call"
    /\ version \in ShaInputs
    /\ shaResult = FALSE
    /\ sv = Unset
    /\ va = <<>> /\ vb = <<>> /\ vc = <<>>
    /\ cmpAB = 0 /\ cmpBC = 0 /\ cmpAC = 0 /\ cmpBA = 0 /\ cmpAA = 0
    /\ tags = <<>> /\ currentVersion = <<>> /\ ignoreMinor = FALSE
    /\ latestVersion = None
    /\ IdleCheck
    /\ IdleMain

IsSHA ==
    /\ pc = "sha_call"
    /\ shaResult' = isSHA(version)
    /\ pc' = "sha_done"
    /\ UNCHANGED <<version, sv, va, vb, vc, cmpAB, cmpBC, cmpAC, cmpBA, cmpAA,
                   tags, currentVersion, ignoreMinor, latestVersion>>
    /\ UNCHANGED <<checkVars, mainVars>>

NextSHA == IsSHA

SpecSHA == InitSHA /\ [][NextSHA]_vars

----------------------------------------------------------------------------
(* One run of CheckActionVersions, one action per turn of its loop *)

\* the version model and the staleness decision are not under study
IdlePure ==
    /\ version = <<>> /\ sv = Unset
    /\ va = <<>> /\ vb = <<>> /\ vc = <<>>
    /\ cmpAB = 0 /\ cmpBC = 0 /\ cmpAC = 0 /\ cmpBA = 0 /\ cmpAA = 0
    /\ tags = <<>> /\ currentVersion = <<>> /\ ignoreMinor = FALSE
    /\ latestVersion = None /\ shaResult = FALSE

\* action names: two paths of one repository and another repository
NamePool ==
    { <<"o", "/", "r">>, <<"o", "/", "r", "/", "s">>, <<"p", "/", "q">> }

\* pinned versions: a hash of seven digits, which is a version string too,
\* and a major-only version
PinPool ==
    { <<"1", "2", "3", "4", "5", "6", "7">>, <<"v", "1">> }

\* the references discovery may find, all in one workflow file
RefPool ==
    {[Name |-> n, Version |-> v, File |-> <<"w">>] : n \in NamePool, v \in PinPool}

\* the reference lists without a repeated reference, of at most n references
RefListsUpTo(n) ==
    UNION {{l \in [1..k -> RefPool] : \A i, j \in 1..k : l[i] = l[j] => i = j} :
              k \in 0..n}

\* the tag lists the API answers with: none, a newer major, a newer minor
RemoteTagLists ==
    { <<>>,
      << <<"v", "2">>, <<"v", "1">> >>,
      << <<"v", "1", ".", "1">>, <<"v", "1">> >> }

\* the head hashes the API answers with: one the pinned hash is a prefix of,
\* one that is a prefix of the pinned hash, and another one
HeadPool ==
    { <<"1", "2", "3", "4", "5", "6", "7", "8">>,
      <<"1", "2", "3">>,
      <<"f", "e", "d", "c", "b", "a", "9", "8">> }

\* the answers that make a request fail, zero being the body left undecoded
FailAnswers(zero) ==
    {[status |-> s, decodes |-> FALSE, body |-> zero] :
        s \in {"neterr", "403", "404", "500", "200"}}

\* the answers with status 200 and a body, drawn from bodies, that decodes
OkAnswers(bodies) ==
    {[status |-> "200", decodes |-> TRUE, body |-> b] : b \in bodies}

\* the place of the answer to a request that is never sent
NoAnswer(zero) == [status |-> "none", decodes |-> FALSE, body |-> zero]

TagAnswers == FailAnswers(<<>>) \cup OkAnswers(RemoteTagLists)

RepoAnswers == FailAnswers(<<>>) \cup OkAnswers({<<"m">>})

HeadAnswers == FailAnswers(<<>>) \cup OkAnswers(HeadPool)

CompareAnswers == FailAnswers(0) \cup OkAnswers(0..MaxAhead)

\* the requests cs, each marked with the position n of the reference that
\* caused it
WithRef(cs, n) ==
    [i \in 1..Len(cs) |->
        [op |-> cs[i].op, repo |-> cs[i].repo, status |-> cs[i].status,
         decodes |-> cs[i].decodes, body |-> cs[i].body, ref |-> n]]

\* fmt.Sprintf("skipping %s: repository not accessible", action.Name)
WarnNotAccessible(name) ==
    [name |-> name, reason |-> <<"repository not accessible">>]

\* fmt.Sprintf("skipping %s: %v", action.Name, err)
WarnErr(name, err) == [name |-> name, reason |-> err.text]

InitCheck ==
    /\ pc = "check_loop"
    /\ actions \in RefListsUpTo(MaxRefs)
    /\ opts \in [IgnoreSHA : BOOLEAN, IgnoreMinor : BOOLEAN]
    /\ idx = 0
    /\ result = [Outdated |-> <<>>, SHAPinned |-> <<>>, Warnings |-> <<>>]
    /\ cache = <<>>
    /\ skippedRepos = {}
    /\ returned = Unset
    /\ calls = <<>>
    /\ IdlePure
    /\ IdleMain

\* the loop is at the reference actions[idx + 1]
InLoop == pc = "check_loop" /\ idx < Len(actions)

\* if skippedRepos[repo] { continue }
SkipInaccessible ==
    /\ InLoop
    /\ repoFromAction(actions[idx + 1].Name) \in skippedRepos
    /\ idx' = idx + 1
    /\ UNCHANGED <<pc, pureVars, mainVars, actions, opts, result, cache, skippedRepos,
                   returned, calls>>

\* if isSHA(action.Version) { if opts.IgnoreSHA { continue } ... }
SkipSHA ==
    /\ InLoop
    /\ repoFromAction(actions[idx + 1].Name) \notin skippedRepos
    /\ isSHA(actions[idx + 1].Version)
    /\ opts.IgnoreSHA
    /\ idx' = idx + 1
    /\ UNCHANGED <<pc, pureVars, mainVars, actions, opts, result, cache, skippedRepos,
                   returned, calls>>

\* the turn of the loop for a hash-pinned reference, from checkSHAStatus to
\* the continue that ends it
CheckSHA ==
    /\ InLoop
    /\ LET action == actions[idx + 1]
           repo   == repoFromAction(action.Name)
       IN
       /\ repo \notin skippedRepos
       /\ isSHA(action.Version)
       /\ ~opts.IgnoreSHA
       /\ \E a1 \in RepoAnswers :
          \E a2 \in (IF getDefaultBranch(repo, a1).err = NoErr
                     THEN HeadAnswers ELSE {NoAnswer(<<>>)}) :
          \E a3 \in (IF Len(checkSHAStatus(repo, action.Version, a1, a2,
                                           NoAnswer(0)).calls) = 3
                     THEN CompareAnswers ELSE {NoAnswer(0)}) :
            LET r == checkSHAStatus(repo, action.Version, a1, a2, a3)
            IN  /\ calls' = calls \o WithRef(r.calls, idx + 1)
                /\ IF r.err # NoErr
                   THEN IF IsNotAccessible(r.err)
                        THEN /\ result' = [result EXCEPT !.Warnings =
                                    append(@, WarnNotAccessible(action.Name))]
                             /\ skippedRepos' = markSkipped(skippedRepos, repo)
                        ELSE /\ result' = [result EXCEPT !.Warnings =
                                    append(@, WarnErr(action.Name, r.err))]
                             /\ UNCHANGED skippedRepos
                   ELSE /\ UNCHANGED skippedRepos
                        /\ IF r.val.CommitsBehind > 0
                           THEN result' = [result EXCEPT !.SHAPinned =
                                    append(@, [File          |-> action.File,
                                               Name          |-> action.Name,
                                               CurrentSHA    |-> action.Version,
                                               LatestSHA     |-> r.val.LatestSHA,
                                               CommitsBehind |-> r.val.CommitsBehind])]
                           ELSE UNCHANGED result
    /\ idx' = idx + 1
    /\ UNCHANGED <<pc, pureVars, mainVars, actions, opts, cache, returned>>

\* the turn of the loop for a reference that is no hash pin, from
\* cache.getTags to the end of the loop body or to the return of the error
CheckTags ==
    /\ InLoop
    /\ LET action == actions[idx + 1]
           repo   == repoFromAction(action.Name)
       IN
       /\ repo \notin skippedRepos
       /\ ~isSHA(action.Version)
       /\ \E a \in (IF repo \in DOMAIN cache THEN {NoAnswer(<<>>)} ELSE TagAnswers) :
            LET t == getTags(cache, repo, a)
            IN  /\ calls' = calls \o WithRef(t.calls, idx + 1)
                /\ cache' = t.cache
                /\ IF t.err # NoErr
                   THEN IF IsNotAccessible(t.err)
                        THEN /\ result' = [result EXCEPT !.Warnings =
                                    append(@, WarnNotAccessible(action.Name))]
                             /\ skippedRepos' = markSkipped(skippedRepos, repo)
                             /\ idx' = idx + 1
                             /\ UNCHANGED <<pc, returned>>
                        ELSE /\ returned' = [allUpToDate |-> FALSE,
                                             err |-> [kind  |-> "failed to check",
                                                      name  |-> action.Name,
                                                      cause |-> t.err]]
                             /\ pc' = "check_done"
                             /\ UNCHANGED <<result, skippedRepos, idx>>
                   ELSE LET latest == findLatestVersion(t.val, action.Version,
                                                        opts.IgnoreMinor)
                        IN  /\ IF latest # None /\ ~versionsEqual(action.Version, latest)
                               THEN result' = [result EXCEPT !.Outdated =
                                        append(@, [Name           |-> action.Name,
                                                   CurrentVersion |-> action.Version,
                                                   LatestVersion  |-> latest,
                                                   File           |-> action.File])]
                               ELSE UNCHANGED result
                            /\ idx' = idx + 1
                            /\ UNCHANGED <<pc, returned, skippedRepos>>
    /\ UNCHANGED <<pureVars, mainVars, actions, opts>>

\* allUpToDate that forgets the behind findings
allUpToDate_OutdatedOnly(res) == Len(res.Outdated) = 0

\* allUpToDate := len(result.Outdated) == 0 && len(result.SHAPinned) == 0
allUpToDate(res) == Len(res.Outdated) = 0 /\ Len(res.SHAPinned) = 0

\* the return after the loop
ReturnResult ==
    /\ pc = "check_loop"
    /\ idx = Len(actions)
    /\ returned' = [allUpToDate |-> allUpToDate(result), err |-> NoErr]
    /\ pc' = "check_done"
    /\ UNCHANGED <<pureVars, mainVars, actions, opts, idx, result, cache, skippedRepos, calls>>

NextCheck == SkipInaccessible \/ SkipSHA \/ CheckSHA \/ CheckTags \/ ReturnResult

SpecCheck == InitCheck /\ [][NextCheck]_vars

----------------------------------------------------------------------------
(* findLatestVersion applied to the tag list of TestFindLatestVersion *)

\* the tags of TestFindLatestVersion, in its order
TestTags ==
    << <<"v","1",".","0",".","0">>, <<"v","1",".","0",".","1">>,
       <<"v","1",".","1",".","0">>, <<"v","1",".","2",".","0">>,
       <<"v","2",".","0",".","0">>, <<"v","2",".","1",".","0">>,
       <<"v","2",".","1",".","1">>, <<"v","1">>, <<"v","2">> >>

\* the list l started at its k-th element, the elements before it moved to
\* the end
Rotate(l, k) == SubSeq(l, k, Len(l)) \o SubSeq(l, 1, k - 1)

\* the list l backwards
Reverse(l) == [i \in 1..Len(l) |-> l[Len(l) + 1 - i]]

\* the orders in which the API may list the tags
TestTagLists ==
    {Rotate(TestTags, k) : k \in 1..Len(TestTags)}
        \cup {Reverse(Rotate(TestTags, k)) : k \in 1..Len(TestTags)}

\* the current versions of TestFindLatestVersion
TestCurrents ==
    { <<"v","1">>, <<"v","2">>, <<"v","1",".","0">>, <<"v","1",".","1">>,
      <<"v","2",".","0">>, <<"v","2",".","1">>, <<"v","1",".","0",".","0">>,
      <<"v","2",".","1",".","0">>, <<"v","2",".","1",".","1">> }

InitTest ==
    /\ pc = "find_call"
    /\ tags \in TestTagLists
    /\ currentVersion \in TestCurrents
    /\ ignoreMinor \in BOOLEAN
    /\ latestVersion = None
    /\ version = <<>> /\ sv = Unset
    /\ va = <<>> /\ vb = <<>> /\ vc = <<>>
    /\ cmpAB = 0 /\ cmpBC = 0 /\ cmpAC = 0 /\ cmpBA = 0 /\ cmpAA = 0
    /\ shaResult = FALSE
    /\ IdleCheck
    /\ IdleMain

SpecTest == InitTest /\ [][NextFind]_vars

----------------------------------------------------------------------------
(* The process: main, with the spinner goroutine beside it *)

\* the exit codes
exitOK == 0

exitOutdated == 1

\* fatal leaving with the status of outdated actions
exitError_AsOutdated == exitOutdated

exitError == 2

\* the command lines, as what hasFlag finds in them
ArgsPool ==
    [help : BOOLEAN, version : BOOLEAN, json : BOOLEAN, quiet : BOOLEAN,
     ignoreSHA : BOOLEAN, ignoreMinor : BOOLEAN]

\* the reference lists FindActionReferences may return: references to the
\* paths of one repository
MainRefLists ==
    {l \in RefListsUpTo(MaxMainRefs) :
        \A i \in 1..Len(l) : repoFromAction(l[i].Name) = <<"o", "/", "r">>}

\* newSpinner()
newSpinner == [stop |-> "open", stopped |-> "open", i |-> 0]

\* the case update's select takes when the goroutine is at g: the send goes
\* through only to a goroutine waiting in a receive on s.action, and the
\* goroutine of start never waits there, its select having a default
selectSend_NoDefault(g) == IF g = "receive" THEN "send" ELSE "blocked"

selectSend(g) == IF g = "receive" THEN "send" ELSE "default"

InitMain ==
    /\ pc = "main"
    /\ args \in ArgsPool
    /\ tty \in BOOLEAN
    /\ exitCode = Unset
    /\ stdout = <<>>
    /\ stderr = <<>>
    /\ spin = Nil
    /\ gpc = "none"
    /\ updates = 0
    /\ IdleCheck
    /\ IdlePure

\* fatal(msg): the message on stderr, then os.Exit(exitError)
Fatal(cause) ==
    /\ stderr' = Append(stderr, <<"error", cause>>)
    /\ exitCode' = exitError
    /\ pc' = "exited"

\* if hasFlag(args, "help", ...) { printHelp(); os.Exit(0) }
MainHelp ==
    /\ pc = "main"
    /\ args.help
    /\ stdout' = Append(stdout, "help")
    /\ exitCode' = 0
    /\ pc' = "exited"
    /\ UNCHANGED <<pureVars, checkVars, args, tty, stderr, spin, gpc, updates>>

\* if hasFlag(args, "version", ...) { printVersion(); os.Exit(0) }
MainVersion ==
    /\ pc = "main"
    /\ ~args.help
    /\ args.version
    /\ stdout' = Append(stdout, "version")
    /\ exitCode' = 0
    /\ pc' = "exited"
    /\ UNCHANGED <<pureVars, checkVars, args, tty, stderr, spin, gpc, updates>>

\* os.Getwd or actions.FindActionReferences fails
MainFatal ==
    /\ pc = "main"
    /\ ~args.help
    /\ ~args.version
    /\ \E cause \in {"getwd", "find"} : Fatal(cause)
    /\ UNCHANGED <<pureVars, checkVars, args, tty, stdout, spin, gpc, updates>>

\* main from the flags to the call of CheckActionVersions, which begins with
\* an empty result, cache and skippedRepos; FindActionReferences returns one
\* of the lists found
Start(found) ==
    /\ pc = "main"
    /\ ~args.help
    /\ ~args.version
    /\ actions' \in found
    /\ opts' = [IgnoreSHA |-> args.ignoreSHA, IgnoreMinor |-> args.ignoreMinor]
    /\ IF ~args.quiet /\ ~args.json /\ tty
       THEN spin' = newSpinner /\ gpc' = "select"
       ELSE UNCHANGED <<spin, gpc>>
    /\ idx' = 0
    /\ result' = [Outdated |-> <<>>, SHAPinned |-> <<>>, Warnings |-> <<>>]
    /\ cache' = <<>>
    /\ skippedRepos' = {}
    /\ pc' = "check_loop"
    /\ UNCHANGED <<pureVars, returned, calls, args, tty, exitCode, stdout, stderr,
                   updates>>

MainStart == Start(MainRefLists)

\* opts.OnProgress, that is spin.update, is called
UpdateCall ==
    /\ pc = "check_loop"
    /\ spin # Nil
    /\ updates < MaxUpdates
    /\ pc' = "update"
    /\ UNCHANGED <<pureVars, checkVars, mainVars>>

\* the select of update takes a case and update returns
UpdateReturn ==
    /\ pc = "update"
    /\ selectSend(gpc) \in {"send", "default"}
    /\ updates' = updates + 1
    /\ pc' = "check_loop"
    /\ UNCHANGED <<pureVars, checkVars, args, tty, exitCode, stdout, stderr, spin,
                   gpc>>

\* spin.finish(): close(s.stop)
FinishClose ==
    /\ pc = "check_done"
    /\ spin # Nil
    /\ spin' = [spin EXCEPT !.stop = "closed"]
    /\ pc' = "finish_wait"
    /\ UNCHANGED <<pureVars, checkVars, args, tty, exitCode, stdout, stderr, gpc,
                   updates>>

\* spin.finish(): <-s.stopped
FinishReturn ==
    /\ pc = "finish_wait"
    /\ spin.stopped = "closed"
    /\ pc' = "finished"
    /\ UNCHANGED <<pureVars, checkVars, mainVars>>

\* one line on stderr for each warning
Warned == stderr \o [k \in 1..Len(result.Warnings) |-> <<"warning", "w">>]

\* the tables main prints for a result with findings
Tables ==
    (IF Len(result.Outdated) > 0 THEN <<"outdated table">> ELSE <<>>)
        \o (IF Len(result.SHAPinned) > 0 THEN <<"sha table">> ELSE <<>>)

\* main after the spinner is dealt with, to os.Exit
Report ==
    /\ pc = "finished" \/ (pc = "check_done" /\ spin = Nil)
    /\ IF returned.err # NoErr
       THEN Fatal("check") /\ UNCHANGED stdout
       ELSE \E jsonOK \in (IF args.json THEN BOOLEAN ELSE {TRUE}) :
              IF ~jsonOK
              THEN /\ stderr' = Append(Warned, <<"error", "json">>)
                   /\ exitCode' = exitError
                   /\ pc' = "exited"
                   /\ UNCHANGED stdout
              ELSE /\ stderr' = Warned
                   /\ stdout' = stdout \o
                         (IF args.json THEN <<"json">>
                          ELSE IF returned.allUpToDate THEN <<>> ELSE Tables)
                   /\ exitCode' = IF returned.allUpToDate THEN exitOK ELSE exitOutdated
                   /\ pc' = "exited"
    /\ UNCHANGED <<pureVars, checkVars, args, tty, spin, gpc, updates>>

\* the goroutine's select finds s.stop open and nothing to receive: default
SpinSelect ==
    /\ gpc = "select"
    /\ exitCode = Unset
    /\ spin.stop = "open"
    /\ spin.i < MaxFrames
    /\ gpc' = "frame"
    /\ UNCHANGED <<pc, pureVars, checkVars, args, tty, exitCode, stdout, stderr, spin,
                   updates>>

\* the default case: draw a frame, i++, sleep
SpinFrame ==
    /\ gpc = "frame"
    /\ exitCode = Unset
    /\ stderr' = Append(stderr, <<"spinner", "frame">>)
    /\ spin' = [spin EXCEPT !.i = @ + 1]
    /\ gpc' = "select"
    /\ UNCHANGED <<pc, pureVars, checkVars, args, tty, exitCode, stdout, updates>>

\* case <-s.stop: clear the line and return, which closes s.stopped
SpinStop ==
    /\ gpc = "select"
    /\ exitCode = Unset
    /\ spin.stop = "closed"
    /\ stderr' = Append(stderr, <<"spinner", "clear">>)
    /\ spin' = [spin EXCEPT !.stopped = "closed"]
    /\ gpc' = "done"
    /\ UNCHANGED <<pc, pureVars, checkVars, args, tty, exitCode, stdout, updates>>

\* the steps of the main goroutine
MainThread ==
    \/ MainHelp \/ MainVersion \/ MainFatal \/ MainStart
    \/ UpdateCall \/ UpdateReturn
    \/ SkipInaccessible \/ SkipSHA \/ CheckSHA \/ CheckTags \/ ReturnResult
    \/ FinishClose \/ FinishReturn \/ Report

\* the steps of the spinner goroutine
Goroutine == SpinSelect \/ SpinFrame \/ SpinStop

NextMain == MainThread \/ Goroutine

SpecMain == InitMain /\ [][NextMain]_vars

\* the command lines that start the spinner on a terminal
InitSpin ==
    /\ InitMain
    /\ ~args.help /\ ~args.version /\ ~args.json /\ ~args.quiet
    /\ ~args.ignoreMinor
    /\ tty

\* a hash pin and a version pin of two paths of one repository
SpinRefLists ==
    { << [Name |-> <<"o", "/", "r">>,
          Version |-> <<"1", "2", "3", "4", "5", "6", "7">>, File |-> <<"w">>],
         [Name |-> <<"o", "/", "r", "/", "s">>,
          Version |-> <<"v", "1">>, File |-> <<"w">>] >> }

SpinStart == Start(SpinRefLists)

\* the steps of the main goroutine once the flags are read and the
\* references found
SpinThread ==
    \/ SpinStart
    \/ UpdateCall \/ UpdateReturn
    \/ SkipInaccessible \/ SkipSHA \/ CheckSHA \/ CheckTags \/ ReturnResult
    \/ FinishClose \/ FinishReturn \/ Report

NextSpin == SpinThread \/ Goroutine

\* the Go scheduler runs every goroutine that can run
SpecSpin == InitSpin /\ [][NextSpin]_vars /\ WF_vars(SpinThread) /\ WF_vars(Goroutine)

----------------------------------------------------------------------------
(* The version grammar and the magnitude order, stated on the raw string   *)
(* and independently of parseSemver and semver.compare                     *)

\* the pieces of s between its dots
RECURSIVE SplitDots(_)
SplitDots(s) ==
    IF \A i \in 1..Len(s) : s[i] # "." THEN <<s>>
    ELSE LET d == CHOOSE i \in 1..Len(s) :
                      s[i] = "." /\ \A j \in 1..(i - 1) : s[j] # "."
         IN  <<SubSeq(s, 1, d - 1)>> \o SplitDots(SubSeq(s, d + 1, Len(s)))

\* the dot-separated groups written in s after an optional leading v
WrittenGroups(s) ==
    SplitDots(IF s # <<>> /\ s[1] = "v" THEN Tail(s) ELSE s)

\* optional v, then one to three dot-separated non-empty groups of digits
IsVersionString(s) ==
    LET g == WrittenGroups(s)
    IN  /\ Len(g) \in 1..3
        /\ \A k \in 1..Len(g) :
               g[k] # <<>> /\ \A i \in 1..Len(g[k]) : g[k][i] \in Digits

RECURSIVE Pow10(_)
Pow10(n) == IF n = 0 THEN 1 ELSE 10 * Pow10(n - 1)

\* the number a group of digits denotes
RECURSIVE NumVal(_)
NumVal(g) ==
    IF g = <<>> THEN 0
    ELSE DigitVal(g[1]) * Pow10(Len(g) - 1) + NumVal(Tail(g))

\* number of groups written in a version string
Precision(s) == Len(WrittenGroups(s))

\* the k-th component of a version string, 0 when it is not written
Component(s, k) ==
    IF k <= Precision(s) THEN NumVal(WrittenGroups(s)[k]) ELSE 0

\* (major, minor, patch) of a version string
Magnitude(s) == <<Component(s, 1), Component(s, 2), Component(s, 3)>>

\* strict lexicographic order on (major, minor, patch)
TupleLess(x, y) ==
    \E k \in 1..3 : x[k] < y[k] /\ \A j \in 1..(k - 1) : x[j] = y[j]

\* the indices of the tags that are version strings
ParseableTags == {i \in 1..Len(tags) : IsVersionString(tags[i])}

\* findLatestVersion has returned in the default mode for a current
\* specifier written with n components
DefaultModeDone(n) ==
    /\ pc = "find_done"
    /\ ~ignoreMinor
    /\ IsVersionString(currentVersion)
    /\ Precision(currentVersion) = n

----------------------------------------------------------------------------
(* Claims *)

\* C1: in the default mode, for a current specifier without a minor
\* component, findLatestVersion returns a non-empty result if and only if
\* some parseable tag has a strictly greater major; a greater minor or patch
\* on the same major never makes the reference stale.
C1_MajorOnlyStaleIffGreaterMajor ==
    DefaultModeDone(1) =>
        (latestVersion # None <=>
            \E i \in ParseableTags :
                Component(tags[i], 1) > Component(currentVersion, 1))

\* C2: in the default mode, for a current specifier with a minor but no
\* patch, findLatestVersion returns a non-empty result if and only if some
\* parseable tag has a greater major, or the same major and a greater minor;
\* a tag that differs only by a greater patch does not make it stale.
C2_MajorMinorStaleIffGreaterMinor ==
    DefaultModeDone(2) =>
        (latestVersion # None <=>
            \E i \in ParseableTags :
                \/ Component(tags[i], 1) > Component(currentVersion, 1)
                \/ /\ Component(tags[i], 1) = Component(currentVersion, 1)
                   /\ Component(tags[i], 2) > Component(currentVersion, 2))

\* C3: in the default mode, for a current specifier with all three
\* components, findLatestVersion returns a non-empty result if and only if
\* some parseable tag has a strictly greater (major, minor, patch) tuple.
C3_FullStaleIffGreaterTuple ==
    DefaultModeDone(3) =>
        (latestVersion # None <=>
            \E i \in ParseableTags :
                TupleLess(Magnitude(currentVersion), Magnitude(tags[i])))

\* C3 witness: a full specifier is reported stale although every tag has its
\* major and minor, so only the patch decides.
C3_Witness ==
    /\ DefaultModeDone(3)
    /\ latestVersion # None
    /\ \A i \in ParseableTags :
           /\ Component(tags[i], 1) <= Component(currentVersion, 1)
           /\ Component(tags[i], 2) <= Component(currentVersion, 2)

\* the indices of the tags written as a bare major: v, then digits, no dot
BareMajorTags ==
    {i \in 1..Len(tags) :
        /\ IsVersionString(tags[i])
        /\ Precision(tags[i]) = 1
        /\ tags[i][1] = "v"}

\* C4: in major-only mode findLatestVersion returns the raw name of the bare
\* major-only tag (vN, no dots) with the greatest major when that major
\* exceeds the major of the current specifier, and none otherwise; a dotted
\* tag never triggers staleness and is never returned, whatever the precision
\* of the current specifier.
C4_MajorOnlyModeBareMajorTags ==
    (pc = "find_done" /\ ignoreMinor /\ IsVersionString(currentVersion)) =>
        LET newer == {i \in BareMajorTags :
                         Component(tags[i], 1) > Component(currentVersion, 1)}
        IN  IF newer = {}
            THEN latestVersion = None
            ELSE \E i \in newer :
                    /\ latestVersion = tags[i]
                    /\ \A j \in BareMajorTags :
                           Component(tags[j], 1) <= Component(tags[i], 1)

\* C4 witness: major-only mode reports a bare major tag although a dotted tag
\* of a greater magnitude is in the list, for a current specifier written with
\* all three components.
C4_Witness ==
    /\ pc = "find_done" /\ ignoreMinor
    /\ IsVersionString(currentVersion) /\ Precision(currentVersion) = 3
    /\ latestVersion # None
    /\ \E i \in ParseableTags :
           /\ Precision(tags[i]) = 3
           /\ TupleLess(Magnitude(latestVersion), Magnitude(tags[i]))

\* C5: in the default mode, whenever findLatestVersion reports a reference as
\* stale, the string it returns is the raw name of a tag of greatest (major,
\* minor, patch) magnitude among all parseable tags, not the nearest newer one.
C5_ReportsGreatestTag ==
    (pc = "find_done" /\ ~ignoreMinor /\ latestVersion # None) =>
        \E i \in ParseableTags :
            /\ latestVersion = tags[i]
            /\ \A j \in ParseableTags :
                   ~TupleLess(Magnitude(tags[i]), Magnitude(tags[j]))

\* C5 witness: the reported tag is not the nearest newer one: another tag lies
\* strictly between the current specifier and the reported tag.
C5_Witness ==
    /\ pc = "find_done" /\ ~ignoreMinor /\ latestVersion # None
    /\ \E j \in ParseableTags :
           /\ TupleLess(Magnitude(currentVersion), Magnitude(tags[j]))
           /\ TupleLess(Magnitude(tags[j]), Magnitude(latestVersion))

\* C6: for a current specifier that is not a version string,
\* findLatestVersion returns none in both modes, whatever the tag list
\* contains, so the reference yields no outdated finding.
C6_UnparseableCurrentYieldsNone ==
    (pc = "find_done" /\ ~IsVersionString(currentVersion)) =>
        latestVersion = None

\* C6 witness: an unparseable, non-empty specifier was judged against a tag
\* list that holds version tags, in major-only mode.
C6_Witness ==
    /\ pc = "find_done" /\ ignoreMinor
    /\ ~IsVersionString(currentVersion) /\ currentVersion # <<>>
    /\ BareMajorTags # {}
    /\ latestVersion = None

\* C7: parseSemver returns a value if and only if the whole string is an
\* optional v followed by one to three dot-separated groups of decimal
\* digits; then Major, Minor and Patch are the numeric values of the groups
\* present (0 for an absent group) and Raw is the input; for every other
\* string it returns nil, never a zero value.
C7_ParseSemverGrammar ==
    pc = "parse_done" =>
        IF IsVersionString(version)
        THEN /\ sv # Nil
             /\ sv.Major = Component(version, 1)
             /\ sv.Minor = Component(version, 2)
             /\ sv.Patch = Component(version, 3)
             /\ sv.Raw = version
        ELSE sv = Nil

\* C7 witness: a string of three groups, the first of two digits, without
\* the v, was parsed into its three numbers.
C7_Witness ==
    /\ pc = "parse_done"
    /\ version = <<"1", "0", ".", "0", ".", "1">>
    /\ sv # Nil
    /\ sv.Major = 10 /\ sv.Minor = 0 /\ sv.Patch = 1

\* C8: the value returned by parseSemver records which components were
\* written: HasMinor is true exactly when a minor group was written and
\* HasPatch exactly when a patch group was written, so that v1, v1.0 and
\* v1.0.0 are equal in magnitude but distinguishable by precision.
C8_ParseSemverRecordsPrecision ==
    (pc = "parse_done" /\ IsVersionString(version)) =>
        /\ "HasMinor" \in DOMAIN sv
        /\ "HasPatch" \in DOMAIN sv
        /\ sv.HasMinor = (Precision(version) >= 2)
        /\ sv.HasPatch = (Precision(version) = 3)

\* the sign of the lexicographic comparison of two (major, minor, patch)
Sign(x, y) == IF TupleLess(x, y) THEN -1 ELSE IF TupleLess(y, x) THEN 1 ELSE 0

\* C9: semver.compare orders two parsed versions lexicographically on
\* (major, minor, patch) with an absent component counted as 0: 0 for a value
\* compared with itself and for values that differ only in which components
\* were written, -1 when the first is smaller, 1 when it is greater.
C9_CompareIsLexicographic ==
    pc = "compare_done" =>
        /\ cmpAB = Sign(Magnitude(va), Magnitude(vb))
        /\ cmpBA = Sign(Magnitude(vb), Magnitude(va))
        /\ cmpBC = Sign(Magnitude(vb), Magnitude(vc))
        /\ cmpAC = Sign(Magnitude(va), Magnitude(vc))
        /\ cmpAA = 0

\* C9 witness: two versions that differ only in which components were
\* written compare equal, and a third one is greater by its patch alone.
C9_Witness ==
    /\ pc = "compare_done"
    /\ va # vb /\ Precision(va) = 1 /\ Precision(vb) = 3
    /\ cmpAB = 0 /\ cmpBA = 0
    /\ Component(vc, 1) = Component(vb, 1)
    /\ Component(vc, 2) = Component(vb, 2)
    /\ cmpBC = -1

\* C10: semver.compare is transitive on parsed versions: if
\* compare(a,b) = -1 and compare(b,c) = -1 then compare(a,c) = -1.
C10_CompareIsTransitive ==
    pc = "compare_done" =>
        ((cmpAB = -1 /\ cmpBC = -1) => cmpAC = -1)

\* C10 witness: a is below b by the patch alone, b is below c by the major,
\* and the three are written with three different precisions.
C10_Witness ==
    /\ pc = "compare_done"
    /\ cmpAB = -1 /\ cmpBC = -1 /\ cmpAC = -1
    /\ Component(va, 1) = Component(vb, 1)
    /\ Component(va, 2) = Component(vb, 2)
    /\ Component(vb, 1) < Component(vc, 1)
    /\ {Precision(va), Precision(vb), Precision(vc)} = {1, 2, 3}

\* the hexadecimal digits, in either case
HexChars == Digits \cup {"a", "b", "c", "d", "e", "f", "A", "B", "C", "D", "E", "F"}

\* C11: isSHA classifies a string as a hash pin if and only if its length is
\* between 7 and 40 inclusive and every character is a hexadecimal digit in
\* either case; shorter, longer or otherwise composed strings are no hash pins.
C11_IsSHAIffSevenToFortyHex ==
    pc = "sha_done" =>
        (shaResult <=> /\ Len(version) >= 7
                       /\ Len(version) <= 40
                       /\ \A i \in 1..Len(version) : version[i] \in HexChars)

----------------------------------------------------------------------------
(* Claims about one run of CheckActionVersions *)

\* 7 to 40 hexadecimal digits, read off the string itself
LooksLikeHash(s) ==
    /\ Len(s) >= 7
    /\ Len(s) <= 40
    /\ \A i \in 1..Len(s) : s[i] \in HexChars

\* the requests the reference at position i caused
CallsOf(i) == SelectSeq(calls, LAMBDA c : c.ref = i)

\* the operations of the commit-distance path
DistanceOps == {"getDefaultBranch", "getBranchHead", "compareCommits"}

\* the outdated findings about the reference r
OutdatedOf(r) ==
    SelectSeq(result.Outdated,
              LAMBDA f : f.Name = r.Name /\ f.CurrentVersion = r.Version
                                         /\ f.File = r.File)

\* C12: a reference whose version is a hash by the hex-length rule and also a
\* version string is handled by the commit-distance path only: every request
\* it causes is one of that path, none is a tag fetch, and no outdated finding
\* is about it.
C12_HashClassificationPrecedesParsing ==
    \A i \in 1..Len(actions) :
        (LooksLikeHash(actions[i].Version) /\ IsVersionString(actions[i].Version))
        => /\ \A k \in 1..Len(CallsOf(i)) : CallsOf(i)[k].op \in DistanceOps
           /\ \A k \in 1..Len(calls) :
                 calls[k].ref = i => calls[k].op # "fetchTags"
           /\ OutdatedOf(actions[i]) = <<>>

\* a reference that is both a hash and a version string took the whole
\* commit-distance path and came out as a behind finding
C12_Witness ==
    \E i \in 1..Len(actions) :
        /\ LooksLikeHash(actions[i].Version)
        /\ IsVersionString(actions[i].Version)
        /\ idx >= i
        /\ Len(CallsOf(i)) = 3
        /\ \E k \in 1..Len(result.SHAPinned) :
              /\ result.SHAPinned[k].Name = actions[i].Name
              /\ result.SHAPinned[k].CurrentSHA = actions[i].Version

\* the first two path segments of an action name: the name up to its second
\* slash, the whole name if it has fewer than two
OwnerRepo(name) ==
    LET slashes == {i \in 1..Len(name) : name[i] = "/"}
        second  == {i \in slashes : Cardinality({j \in slashes : j < i}) = 1}
    IN  IF second = {} THEN name
        ELSE SubSeq(name, 1, (CHOOSE i \in second : TRUE) - 1)

\* the positions, in a log cs of requests, of the tag fetches for repo
TagFetches(cs, repo) ==
    {k \in 1..Len(cs) : cs[k].op = "fetchTags" /\ cs[k].repo = repo}

\* C13: in one run the tag list of a repository is fetched at most once; a
\* tag fetch is addressed to the first two path segments (owner/repo) of the
\* action name that caused it, so subpaths of one repository share a fetch;
\* and an entry of the cache is never fetched again nor changed.
C13_TagsFetchedOncePerRepository ==
    [][ /\ \A k \in 1..Len(calls') :
              /\ Cardinality(TagFetches(calls', calls'[k].repo)) <= 1
              /\ calls'[k].op = "fetchTags"
                 => calls'[k].repo = OwnerRepo(actions[calls'[k].ref].Name)
        /\ \A repo \in DOMAIN cache :
              /\ repo \in DOMAIN cache'
              /\ cache'[repo] = cache[repo]
              /\ TagFetches(calls', repo) = TagFetches(calls, repo)
      ]_vars

\* two version-pinned references to different paths of one repository have
\* both been processed, with one tag fetch that filled the cache
C13_Witness ==
    \E i, j \in 1..Len(actions) :
        /\ i < j
        /\ idx >= j
        /\ actions[i].Name # actions[j].Name
        /\ OwnerRepo(actions[i].Name) = OwnerRepo(actions[j].Name)
        /\ ~LooksLikeHash(actions[i].Version)
        /\ ~LooksLikeHash(actions[j].Version)
        /\ OwnerRepo(actions[i].Name) \in DOMAIN cache
        /\ cache[OwnerRepo(actions[i].Name)] # <<>>
        /\ Cardinality(TagFetches(calls, OwnerRepo(actions[i].Name))) = 1
        /\ CallsOf(j) = <<>>

\* the operations of the requests cs, in order
OpsOf(cs) == [k \in 1..Len(cs) |-> cs[k].op]

\* the positions, in the log of requests, of the requests op for repo
RequestsFor(op, repo) ==
    {k \in 1..Len(calls) : calls[k].op = op /\ calls[k].repo = repo}

\* the positions of the hash-pinned references to repo the loop has passed
HashRefsPassed(repo) ==
    {i \in 1..idx : /\ OwnerRepo(actions[i].Name) = repo
                    /\ LooksLikeHash(actions[i].Version)}

\* C14 as stated: in one run a repository gets at most one default-branch
\* request, at most one branch-head request and at most one compare request,
\* however many hash-pinned references map to it.
C14_OneTripletPerRepository ==
    \A k \in 1..Len(calls) : \A op \in DistanceOps :
        Cardinality(RequestsFor(op, calls[k].repo)) <= 1

\* C14, amended: the triplet is issued per hash-pinned reference, not per
\* repository.  A reference causes at most one default-branch request, then
\* at most one branch-head request, then at most one compare request, all to
\* its own repository; a repository gets no more requests of one kind than
\* hash-pinned references to it have been processed.
C14_OneTripletPerReference ==
    /\ \A i \in 1..Len(actions) :
          LooksLikeHash(actions[i].Version)
          => /\ \E n \in 0..3 :
                   OpsOf(CallsOf(i)) =
                       SubSeq(<<"getDefaultBranch", "getBranchHead", "compareCommits">>, 1, n)
             /\ \A k \in 1..Len(CallsOf(i)) :
                   CallsOf(i)[k].repo = OwnerRepo(actions[i].Name)
    /\ \A k \in 1..Len(calls) : \A op \in DistanceOps :
          Cardinality(RequestsFor(op, calls[k].repo))
              <= Cardinality(HashRefsPassed(calls[k].repo))

\* two hash-pinned references to one repository have each caused the three
\* requests
C14_Witness ==
    \E i, j \in 1..Len(actions) :
        /\ i < j
        /\ idx >= j
        /\ OwnerRepo(actions[i].Name) = OwnerRepo(actions[j].Name)
        /\ LooksLikeHash(actions[i].Version)
        /\ LooksLikeHash(actions[j].Version)
        /\ Len(CallsOf(i)) = 3
        /\ Len(CallsOf(j)) = 3

\* the request c was answered not-found or forbidden
Denied(c) == c.status \in {"403", "404"}

\* the request c did not yield a decoded value
Failed(c) == c.status # "200" \/ ~c.decodes

\* the positions of the warnings that an action of repo is skipped because the
\* repository is not accessible
WarningsAbout(repo) ==
    {w \in 1..Len(result.Warnings) :
        /\ OwnerRepo(result.Warnings[w].name) = repo
        /\ result.Warnings[w].reason = <<"repository not accessible">>}

\* the behind findings about the reference r
BehindOf(r) ==
    SelectSeq(result.SHAPinned,
              LAMBDA f : f.Name = r.Name /\ f.CurrentSHA = r.Version
                                         /\ f.File = r.File)

\* C15: once a request for a repository is answered not-found or forbidden,
\* the run goes on past the reference, exactly one warning that the
\* repository is not accessible is recorded for it, and every later reference
\* to it issues no request and adds no finding.
C15_InaccessibleRepositorySkippedOnce ==
    \A k \in 1..Len(calls) :
        Denied(calls[k])
        => /\ idx >= calls[k].ref
           /\ Cardinality(WarningsAbout(calls[k].repo)) = 1
           /\ \A j \in 1..Len(actions) :
                 (j > calls[k].ref /\ OwnerRepo(actions[j].Name) = calls[k].repo)
                 => /\ CallsOf(j) = <<>>
                    /\ OutdatedOf(actions[j]) = <<>>
                    /\ BehindOf(actions[j]) = <<>>

FatalTagFetch(k) ==
    /\ calls[k].op = "fetchTags"
    /\ Failed(calls[k])
    /\ ~Denied(calls[k])

\* the request at position k of the log is a failed request of the
\* commit-distance path that checkSHAStatus reports as a plain error: any
\* failure but a not-found or forbidden answer to the default-branch request
PlainDistanceFailure(k) ==
    /\ calls[k].op \in DistanceOps
    /\ Failed(calls[k])
    /\ ~(calls[k].op = "getDefaultBranch" /\ Denied(calls[k]))

C17_DeniedIsInaccessibleForAllFour ==
    \A k \in 1..Len(calls) :
        Denied(calls[k])
        => /\ calls[k].repo \in skippedRepos
           /\ \E w \in 1..Len(result.Warnings) :
                 /\ result.Warnings[w].name = actions[calls[k].ref].Name
                 /\ result.Warnings[w].reason = <<"repository not accessible">>

\* C18: when CheckActionVersions returns without error, its boolean result is
\* true if and only if the outdated collection and the behind collection are
\* both empty; the warnings have no part in it.
C18_UpToDateIffNoFindings ==
    (returned # Unset /\ returned.err = NoErr)
    => (returned.allUpToDate <=> (result.Outdated = <<>> /\ result.SHAPinned = <<>>))

\* a run returned true with a warning recorded
C18_Witness ==
    /\ returned # Unset
    /\ returned.err = NoErr
    /\ returned.allUpToDate
    /\ result.Warnings # <<>>

\* the positions in the input of the references a finding with this name,
\* version and file can come from
RefPositions(name, ver, file) ==
    {i \in 1..Len(actions) :
        actions[i] = [Name |-> name, Version |-> ver, File |-> file]}

\* the input position of each outdated finding, in the order of the findings
OutdatedPositions ==
    [k \in 1..Len(result.Outdated) |->
        RefPositions(result.Outdated[k].Name, result.Outdated[k].CurrentVersion,
                     result.Outdated[k].File)]

\* the input position of each behind finding, in the order of the findings
BehindPositions ==
    [k \in 1..Len(result.SHAPinned) |->
        RefPositions(result.SHAPinned[k].Name, result.SHAPinned[k].CurrentSHA,
                     result.SHAPinned[k].File)]

\* every finding of ps comes from one reference, and a later finding comes
\* from a later reference
InInputOrder(ps) ==
    /\ \A k \in 1..Len(ps) : Cardinality(ps[k]) = 1
    /\ \A k, l \in 1..Len(ps) :
          k < l => \A i \in ps[k] : \A j \in ps[l] : i < j

\* C19: the outdated findings, and the behind findings, are each in the
\* relative order in which the references that produced them stand in the
\* input.
C19_FindingsInInputOrder ==
    InInputOrder(OutdatedPositions) /\ InInputOrder(BehindPositions)

\* two outdated findings, or two behind findings, with a finding of the other
\* kind as well
C19_Witness ==
    /\ Len(result.Outdated) + Len(result.SHAPinned) = 3
    /\ result.Outdated # <<>>
    /\ result.SHAPinned # <<>>

\* the reference at position i is a hash pin whose requests all succeeded
Resolved(i) ==
    /\ LooksLikeHash(actions[i].Version)
    /\ CallsOf(i) # <<>>
    /\ \A k \in 1..Len(CallsOf(i)) : ~Failed(CallsOf(i)[k])

\* the number of commits the compare request put the head ahead of the pin of
\* the resolved reference at i: zero when no compare request was needed
Distance(i) == IF Len(CallsOf(i)) = 3 THEN CallsOf(i)[3].body ELSE 0

\* C20: the behind collection holds exactly the processed hash-pinned
\* references resolved to a strictly positive distance.  Such a reference has
\* one entry, with CommitsBehind the number of commits the head of the default
\* branch is ahead of the pin and LatestSHA that head; a reference resolved to
\* zero, or not resolved, has none; and every entry has CommitsBehind >= 1.
C20_BehindIffPositiveDistance ==
    /\ \A i \in 1..Len(actions) :
          BehindOf(actions[i]) =
              IF Resolved(i) /\ Distance(i) > 0
              THEN <<[File          |-> actions[i].File,
                      Name          |-> actions[i].Name,
                      CurrentSHA    |-> actions[i].Version,
                      LatestSHA     |-> CallsOf(i)[2].body,
                      CommitsBehind |-> Distance(i)]>>
              ELSE <<>>
    /\ \A k \in 1..Len(result.SHAPinned) :
          /\ result.SHAPinned[k].CommitsBehind >= 1
          /\ BehindPositions[k] # {}

\* one hash pin resolved to two commits behind and has its entry, another
\* resolved to zero by the compare request and has none
C20_Witness ==
    \E i, j \in 1..idx :
        /\ Resolved(i) /\ Distance(i) = 2 /\ Len(BehindOf(actions[i])) = 1
        /\ Resolved(j) /\ Len(CallsOf(j)) = 3 /\ Distance(j) = 0
        /\ BehindOf(actions[j]) = <<>>

\* the request c is a tag fetch answered with an empty list of tags
EmptyTagFetch(c) ==
    /\ c.op = "fetchTags"
    /\ ~Failed(c)
    /\ c.body = <<>>

\* the loop is at a version-pinned reference to a repository that is not
\* skipped and whose cached tag list is empty
AtCachedEmpty ==
    /\ pc = "check_loop"
    /\ idx < Len(actions)
    /\ ~LooksLikeHash(actions[idx + 1].Version)
    /\ OwnerRepo(actions[idx + 1].Name) \notin skippedRepos
    /\ OwnerRepo(actions[idx + 1].Name) \in DOMAIN cache
    /\ cache[OwnerRepo(actions[idx + 1].Name)] = <<>>

\* C21: a tag fetch that succeeds with no tags is no failure.  The turn of the
\* loop that made it adds no finding and no warning, returns no error, goes on
\* to the next reference and leaves the empty list in the cache; a later
\* reference to the repository is passed without a request and without a
\* finding or a warning.
C21_EmptyTagListIsSuccess ==
    [][ /\ (Len(calls') = Len(calls) + 1 /\ EmptyTagFetch(calls'[Len(calls')]))
           => /\ result' = result
              /\ returned' = Unset
              /\ pc' = "check_loop"
              /\ idx' = idx + 1
              /\ calls'[Len(calls')].repo \in DOMAIN cache'
              /\ cache'[calls'[Len(calls')].repo] = <<>>
        /\ AtCachedEmpty
           => /\ calls' = calls
              /\ result' = result
              /\ returned' = Unset
              /\ idx' = idx + 1
              /\ cache' = cache
      ]_vars

\* two version-pinned references to one repository have been processed with
\* one tag fetch, which brought no tags, and the result is empty
C21_Witness ==
    \E i, j \in 1..idx :
        /\ i < j
        /\ OwnerRepo(actions[i].Name) = OwnerRepo(actions[j].Name)
        /\ ~LooksLikeHash(actions[i].Version)
        /\ ~LooksLikeHash(actions[j].Version)
        /\ Len(CallsOf(i)) = 1
        /\ EmptyTagFetch(CallsOf(i)[1])
        /\ CallsOf(j) = <<>>
        /\ cache[OwnerRepo(actions[i].Name)] = <<>>
        /\ result = [Outdated |-> <<>>, SHAPinned |-> <<>>, Warnings |-> <<>>]

\* the loop is at a hash-pinned reference
AtHashPin ==
    /\ pc = "check_loop"
    /\ idx < Len(actions)
    /\ LooksLikeHash(actions[idx + 1].Version)

\* the requests a step adds to the log
NewCalls == SubSeq(calls', Len(calls) + 1, Len(calls'))

\* C22: with IgnoreSHA set, the turn of the loop for a hash-pinned reference
\* issues no request, adds no finding and no warning, and leaves the tag cache
\* and the set of skipped repositories as they were.  With IgnoreSHA not set,
\* a hash-pinned reference to a repository that is not skipped goes to the
\* commit-distance resolver: the turn starts with a default-branch request for
\* its repository, issues requests of that path only and leaves the tag cache
\* alone.
C22_IgnoreSHASuppressesHashPins ==
    [][ /\ (AtHashPin /\ opts.IgnoreSHA)
           => /\ calls' = calls
              /\ result' = result
              /\ cache' = cache
              /\ skippedRepos' = skippedRepos
              /\ returned' = Unset
              /\ idx' = idx + 1
        /\ (AtHashPin /\ ~opts.IgnoreSHA
                      /\ OwnerRepo(actions[idx + 1].Name) \notin skippedRepos)
           => /\ Len(calls') > Len(calls)
              /\ NewCalls[1].op = "getDefaultBranch"
              /\ \A k \in 1..Len(NewCalls) :
                    /\ NewCalls[k].op \in DistanceOps
                    /\ NewCalls[k].repo = OwnerRepo(actions[idx + 1].Name)
              /\ cache' = cache
              /\ result'.Outdated = result.Outdated
              /\ idx' = idx + 1
      ]_vars

\* with IgnoreSHA set, a hash-pinned reference was passed after the tags of
\* its repository were fetched, and the whole run issued that one request
C22_Witness ==
    /\ opts.IgnoreSHA
    /\ \E i \in 1..idx :
          /\ LooksLikeHash(actions[i].Version)
          /\ OwnerRepo(actions[i].Name) \in DOMAIN cache
          /\ BehindOf(actions[i]) = <<>>
    /\ idx = Len(actions)
    /\ Len(calls) = 1
    /\ result.SHAPinned = <<>>
    /\ result.Warnings = <<>>

----------------------------------------------------------------------------
(* Claims about the tag set of the precision contract *)

\* findLatestVersion has returned in the default mode for the current version
\* v2.1.0 and the nine tags v1, v1.0.0, v1.0.1, v1.1.0, v1.2.0, v2, v2.0.0,
\* v2.1.0, v2.1.1
ContractCase ==
    /\ pc = "find_done"
    /\ ~ignoreMinor
    /\ currentVersion = <<"v","2",".","1",".","0">>
    /\ {tags[i] : i \in 1..Len(tags)} =
          { <<"v","1">>, <<"v","1",".","0",".","0">>, <<"v","1",".","0",".","1">>,
            <<"v","1",".","1",".","0">>, <<"v","1",".","2",".","0">>, <<"v","2">>,
            <<"v","2",".","0",".","0">>, <<"v","2",".","1",".","0">>,
            <<"v","2",".","1",".","1">> }

\* C24 as stated: with that tag set and the default mode, the current version
\* v2.1.0 yields no finding.
C24_ContractFullVersionNoFinding ==
    ContractCase => latestVersion = <<>>

\* C24, amended: with that tag set and the default mode, the current version
\* v2.1.0 yields the finding v2.1.1, the tag that is greater in its patch
\* component.
C24_ContractFullVersionFindsPatch ==
    ContractCase => latestVersion = <<"v","2",".","1",".","1">>

\* the contract case, with the tags listed bare majors first
C24_Witness ==
    /\ ContractCase
    /\ Precision(tags[1]) = 1
    /\ latestVersion # <<>>

\* C26: when several parseable tags share the greatest magnitude, the string
\* findLatestVersion reports in the default mode is one of the highest
\* written precision among them, whatever the order of the tag list.
C26_TieGoesToHigherPrecision ==
    (/\ pc = "find_done"
     /\ ~ignoreMinor
     /\ latestVersion # <<>>)
    => \A i \in ParseableTags :
          Magnitude(tags[i]) = Magnitude(latestVersion)
          => Precision(tags[i]) <= Precision(latestVersion)

----------------------------------------------------------------------------
(* More claims about one run of CheckActionVersions *)

\* p is a literal prefix of s
IsPrefixOf(p, s) ==
    /\ Len(p) <= Len(s)
    /\ \A k \in 1..Len(p) : s[k] = p[k]

\* the reference at position i is a hash pin whose default-branch and
\* branch-head requests both succeeded
HeadKnown(i) ==
    /\ LooksLikeHash(actions[i].Version)
    /\ Len(CallsOf(i)) >= 2
    /\ ~Failed(CallsOf(i)[1])
    /\ ~Failed(CallsOf(i)[2])

\* the pin of the reference at i and the head read for it: one is a prefix of
\* the other
PinMatchesHead(i) ==
    \/ IsPrefixOf(actions[i].Version, CallsOf(i)[2].body)
    \/ IsPrefixOf(CallsOf(i)[2].body, actions[i].Version)

\* C25: when the pinned hash is a literal prefix of the head of the default
\* branch, or the head a literal prefix of the pin, checkSHAStatus issues no
\* compare request and the reference is zero commits behind, so it has no
\* entry; when neither is a prefix of the other, the compare request is issued.
C25_PrefixMeansZeroWithoutCompare ==
    \A i \in 1..Len(actions) :
        HeadKnown(i)
        => IF PinMatchesHead(i)
           THEN /\ Len(CallsOf(i)) = 2
                /\ BehindOf(actions[i]) = <<>>
           ELSE /\ Len(CallsOf(i)) = 3
                /\ CallsOf(i)[3].op = "compareCommits"

\* three hash pins resolved: one a prefix of its head, one with a head that
\* is a prefix of it, one that needed the compare request
C25_Witness ==
    \E i, j, l \in 1..idx :
        /\ HeadKnown(i) /\ IsPrefixOf(actions[i].Version, CallsOf(i)[2].body)
        /\ HeadKnown(j) /\ IsPrefixOf(CallsOf(j)[2].body, actions[j].Version)
        /\ HeadKnown(l) /\ ~PinMatchesHead(l) /\ Len(CallsOf(l)) = 3

\* the loop is at a version-pinned reference to a repository that is not
\* skipped
AtVersionPin ==
    /\ pc = "check_loop"
    /\ idx < Len(actions)
    /\ ~LooksLikeHash(actions[idx + 1].Version)
    /\ OwnerRepo(actions[idx + 1].Name) \notin skippedRepos

\* the outdated finding about the reference r with the latest version l
OutdatedFinding(r, l) ==
    [Name |-> r.Name, CurrentVersion |-> r.Version, LatestVersion |-> l,
     File |-> r.File]

\* C28: every outdated finding has a LatestVersion that is the name of one of
\* the tags of its repository and is strictly greater in (major, minor, patch)
\* than its CurrentVersion; and whenever findLatestVersion reports a version
\* for a reference, the finding is added: the versionsEqual guard suppresses
\* none.
C28_OutdatedIsStrictlyGreaterTag ==
    [][ /\ \A k \in 1..Len(result'.Outdated) :
              LET f    == result'.Outdated[k]
                  repo == OwnerRepo(f.Name)
              IN  /\ repo \in DOMAIN cache'
                  /\ \E t \in 1..Len(cache'[repo]) : cache'[repo][t] = f.LatestVersion
                  /\ IsVersionString(f.CurrentVersion)
                  /\ IsVersionString(f.LatestVersion)
                  /\ TupleLess(Magnitude(f.CurrentVersion), Magnitude(f.LatestVersion))
        /\ (AtVersionPin /\ OwnerRepo(actions[idx + 1].Name) \in DOMAIN cache')
           => LET latest == findLatestVersion(cache'[OwnerRepo(actions[idx + 1].Name)],
                                              actions[idx + 1].Version,
                                              opts.IgnoreMinor)
              IN  result'.Outdated =
                      IF latest # <<>>
                      THEN Append(result.Outdated,
                                  OutdatedFinding(actions[idx + 1], latest))
                      ELSE result.Outdated
      ]_vars

\* two outdated findings: one to a newer major, one to a newer minor of the
\* same major
C28_Witness ==
    \E k, l \in 1..Len(result.Outdated) :
        /\ Component(result.Outdated[k].LatestVersion, 1)
              > Component(result.Outdated[k].CurrentVersion, 1)
        /\ Component(result.Outdated[l].LatestVersion, 1)
              = Component(result.Outdated[l].CurrentVersion, 1)

\* the loop is at a reference to a repository marked skipped
AtSkipped ==
    /\ pc = "check_loop"
    /\ idx < Len(actions)
    /\ OwnerRepo(actions[idx + 1].Name) \in skippedRepos

\* C29: the skipped mark goes before the tag cache and is never taken back.
\* A reference to a repository marked skipped is passed without a request, a
\* finding or a warning, also when the tags of the repository are in the
\* cache; and a repository marked skipped stays marked.
C29_SkippedBeforeCacheAndForGood ==
    [][ /\ skippedRepos \subseteq skippedRepos'
        /\ AtSkipped
           => /\ idx' = idx + 1
              /\ calls' = calls
              /\ result' = result
              /\ cache' = cache
              /\ returned' = Unset
      ]_vars

\* the tags of a repository were fetched and gave a finding, then a hash pin
\* marked the repository skipped, then a version pin that the cached tags
\* would make outdated was passed without a finding
C29_Witness ==
    \E i, j, l \in 1..idx :
        /\ i < j /\ j < l
        /\ OwnerRepo(actions[i].Name) = OwnerRepo(actions[j].Name)
        /\ OwnerRepo(actions[j].Name) = OwnerRepo(actions[l].Name)
        /\ OutdatedOf(actions[i]) # <<>>
        /\ LooksLikeHash(actions[j].Version)
        /\ Len(CallsOf(j)) = 1 /\ Denied(CallsOf(j)[1])
        /\ ~LooksLikeHash(actions[l].Version)
        /\ actions[l].Version = actions[i].Version
        /\ OutdatedOf(actions[l]) = <<>>
        /\ OwnerRepo(actions[l].Name) \in skippedRepos
        /\ OwnerRepo(actions[l].Name) \in DOMAIN cache

\* the number of entries in the three collections of the result
Entries(res) == Len(res.Outdated) + Len(res.SHAPinned) + Len(res.Warnings)

\* C30: a reference adds at most one entry to the three collections of the
\* result taken together.  After any number of references processed, the
\* outdated findings, behind findings and warnings together are at most that
\* many; no reference has more than one finding, nor one in each collection.
C30_AtMostOneEntryPerReference ==
    /\ Entries(result) <= idx
    /\ \A i \in 1..Len(actions) :
          Len(OutdatedOf(actions[i])) + Len(BehindOf(actions[i])) <= 1

\* three references processed, each with an entry of another kind
C30_Witness ==
    /\ idx = 3
    /\ Len(result.Outdated) = 1
    /\ Len(result.SHAPinned) = 1
    /\ Len(result.Warnings) = 1

----------------------------------------------------------------------------
(* Claims about the process *)

\* the step named cause failed and main reported it
Reported(cause) == \E k \in 1..Len(stderr) : stderr[k] = <<"error", cause>>

\* locating the working directory, discovering the references, checking the
\* versions or printing JSON failed
SomethingFailed ==
    \/ Reported("getwd")
    \/ Reported("find")
    \/ (returned # Unset /\ returned.err # NoErr)
    \/ Reported("json")

\* the check completed, and so did the printing of its result
CheckCompleted ==
    /\ returned # Unset
    /\ returned.err = NoErr
    /\ ~Reported("json")

\* the check found an outdated or a behind reference
HasFindings == result.Outdated # <<>> \/ result.SHAPinned # <<>>

\* C23 as stated: the process exits with 0 exactly when the check completes
\* without a finding, with 1 exactly when it completes with a finding, and
\* with 2 whenever one of its steps fails.
C23_ExitStatusTellsOutcome ==
    pc = "exited"
    => /\ exitCode = 0 <=> (CheckCompleted /\ ~HasFindings)
       /\ exitCode = 1 <=> (CheckCompleted /\ HasFindings)
       /\ SomethingFailed => exitCode = 2

\* C23, amended: the process also exits with 0, without a check, when the
\* help or the version is asked for.  Otherwise it exits with 0 exactly when
\* the check completes without a finding, with 1 exactly when it completes
\* with a finding, and with 2 exactly when one of its steps fails.
C23_ExitStatusTellsOutcomeOrHelp ==
    pc = "exited"
    => /\ exitCode \in {0, 1, 2}
       /\ exitCode = 0 <=> \/ args.help \/ args.version
                           \/ (CheckCompleted /\ ~HasFindings)
       /\ exitCode = 1 <=> (CheckCompleted /\ HasFindings)
       /\ exitCode = 2 <=> SomethingFailed
       /\ (args.help \/ args.version) => returned = Unset

\* the process left with 1 after printing a behind finding as JSON
C23_Witness ==
    /\ pc = "exited"
    /\ exitCode = 1
    /\ args.json
    /\ result.SHAPinned # <<>>
    /\ stdout = <<"json">>

\* finish was called and has returned
FinishReturned == spin # Nil /\ pc \in {"finished", "exited"}

\* the goroutine writes nothing after main has written a warning or an error,
\* and has ended when main writes a result to stdout
SpinnerQuietBeforeOutput ==
    /\ \A k, l \in 1..Len(stderr) :
          (k < l /\ stderr[k][1] \in {"warning", "error"}) => stderr[l][1] # "spinner"
    /\ (spin # Nil /\ stdout # <<>>) => gpc = "done"

\* C27: the spinner is stopped before any result is written.  A call of
\* finish returns, whatever calls of update went before; once it has
\* returned, the goroutine has ended and writes no more to stderr; and a call
\* of update returns whether or not the goroutine is ready to receive.
C27_SpinnerStoppedBeforeOutput ==
    /\ [](FinishReturned => (gpc = "done" /\ spin.stopped = "closed"))
    /\ []SpinnerQuietBeforeOutput
    /\ (pc = "finish_wait") ~> (pc = "finished")
    /\ (pc = "update") ~> (pc = "check_loop")

\* finish has returned after two calls of update and all the frames, one of
\* them drawn after the stop channel was closed
C27_Witness ==
    /\ pc = "finished"
    /\ updates = MaxUpdates
    /\ spin.i = MaxFrames
    /\ stderr = << <<"spinner", "frame">>, <<"spinner", "frame">>,
                   <<"spinner", "clear">> >>
    /\ result.Warnings # <<>>

====
